---- MODULE Spec2Model ----
(***************************************************************************)
(* The file-backed product / student store of the e-commerce API           *)
(* (src/unnamed/part_000, "index.js" with fs persistence).                 *)
(*                                                                         *)
(* State: the two module-level arrays `products` and `students`, the two   *)
(* snapshot files, the position of the startup sequence                    *)
(* (initializeData().then(...listen...)), the async request handlers that  *)
(* are suspended in `await writeData(...)`, and the HTTP response sent by  *)
(* the step just taken.                                                    *)
(***************************************************************************)
EXTENDS Integers, Sequences, FiniteSets, TLC

(* ------------------------------ bounds -------------------------------- *)

\* Longest collection the model lets a POST grow an array to.
MaxLen == 3

\* Number of request handlers that may be suspended in writeData at once.
MaxInFlight == 2

\* Number of requests that reach writeData in one behaviour.
MaxRequests == 2

\* Number of process crashes in one behaviour.
MaxCrashes == 1

\* Requests that change a collection in SpecRequests, which is about the
\* requests that are refused and the reads.
MaxChanges == 1

Slots == 1..MaxInFlight

(* --------------------------- JavaScript values ------------------------ *)

\* A JSON value of a request body or a record field: a type tag and its text.
Str(s) == [t |-> "string", v |-> s]
Num(s) == [t |-> "number", v |-> s]
Undefined == [t |-> "undefined", v |-> ""]
Null == [t |-> "null", v |-> ""]

\* The number JSON.parse gives for a literal too large for a double (1e400),
\* as express.json() parses a request body.
Infinity == Num("Infinity")

\* !x of JavaScript for the values above: undefined, null, 0 and "" are
\* falsy.
Falsy(x) ==
    \/ x.t = "undefined"
    \/ x.t = "null"
    \/ x.t = "number" /\ x.v = "0"
    \/ x.t = "string" /\ x.v = ""

\* a || b
OrElse(a, b) == IF Falsy(a) THEN b ELSE a

\* Decimal text of the small integers used as ids.
Digits == <<"1", "2", "3", "4", "5", "6", "7", "8", "9">>

\* Number -> text, as JSON.stringify prints an id.
NumToStr(n) == Digits[n]

\* parseInt(s): the integer a decimal string denotes, NaN (here -1, equal to
\* no id) for a string that does not start with a digit.
ParseInt(s) ==
    IF \E k \in 1..Len(Digits) : Digits[k] = s
    THEN CHOOSE k \in 1..Len(Digits) : Digits[k] = s
    ELSE 0 - 1

(* ------------------------------ records ------------------------------- *)

\* The contents of ./data/products (ids 1..n).
DefaultProducts ==
    << [id |-> 1, name |-> Str("Laptop"), price |-> Num("999"),
        description |-> Str("High-performance laptop"),
        category |-> Str("Electronics")],
       [id |-> 2, name |-> Str("Smartphone"), price |-> Num("699"),
        description |-> Str("Latest smartphone model"),
        category |-> Str("Electronics")] >>

\* The contents of ./data/students (ids 1..n, distinct studentIDs).
DefaultStudents ==
    << [id |-> 1, name |-> Str("Ada"), grade |-> Str("A"),
        studentID |-> Str("S1")] >>

\* Request bodies of POST/PUT /api/products.
ProductBodies ==
    { [name |-> Str("Tablet"), price |-> Num("299"),
       description |-> Str("x"), category |-> Undefined],
      [name |-> Str("Free"), price |-> Num("0"),
       description |-> Str("x"), category |-> Undefined],
      [name |-> Undefined, price |-> Num("299"),
       description |-> Str("x"), category |-> Undefined] }

\* Request bodies of POST /api/students.
StudentBodies ==
    { [name |-> Str("Bob"), grade |-> Str("B"), studentID |-> Str("S2")],
      [name |-> Str("Cy"), grade |-> Str("A"), studentID |-> Str("S2")],
      [name |-> Str("Cy"), grade |-> Str("A"), studentID |-> Str("s2")],
      [name |-> Str("Di"), grade |-> Undefined, studentID |-> Str("S3")] }

\* The :id route parameters tried: every id a record can carry, and a
\* non-numeric one.
IdParams == {Digits[k] : k \in 1..(MaxLen + 1)} \cup {"abc"}

(* --------------------------- JSON snapshot ---------------------------- *)

\* Drop the members whose value is undefined, as JSON.stringify does.
Defined(pairs) == SelectSeq(pairs, LAMBDA kv : kv[2].t # "undefined")

\* The value JSON.stringify writes for a member: null for a number that is
\* not finite, the value itself otherwise.
JsonValue(x) == IF x = Infinity THEN Null ELSE x

\* JSON.stringify of one product: its members in insertion order.
StringifyProduct(p) ==
    Defined(<< <<"id", Num(NumToStr(p.id))>>, <<"name", JsonValue(p.name)>>,
               <<"price", JsonValue(p.price)>>,
               <<"description", JsonValue(p.description)>>,
               <<"category", JsonValue(p.category)>> >>)

\* JSON.stringify of one student.
StringifyStudent(s) ==
    Defined(<< <<"id", Num(NumToStr(s.id))>>, <<"name", JsonValue(s.name)>>,
               <<"grade", JsonValue(s.grade)>>,
               <<"studentID", JsonValue(s.studentID)>> >>)

\* JSON.stringify(products, null, 2)
StringifyProducts(coll) == [k \in 1..Len(coll) |-> StringifyProduct(coll[k])]

\* JSON.stringify(students, null, 2)
StringifyStudents(coll) == [k \in 1..Len(coll) |-> StringifyStudent(coll[k])]

\* obj[key] of a parsed object: undefined when the member is absent.
Member(pairs, key) ==
    IF \E k \in 1..Len(pairs) : pairs[k][1] = key
    THEN pairs[CHOOSE k \in 1..Len(pairs) : pairs[k][1] = key][2]
    ELSE Undefined

\* JSON.parse of a products snapshot.
ParseProducts(text) ==
    [k \in 1..Len(text) |->
        [id |-> ParseInt(Member(text[k], "id").v),
         name |-> Member(text[k], "name"),
         price |-> Member(text[k], "price"),
         description |-> Member(text[k], "description"),
         category |-> Member(text[k], "category")]]

\* JSON.parse of a students snapshot.
ParseStudents(text) ==
    [k \in 1..Len(text) |->
        [id |-> ParseInt(Member(text[k], "id").v),
         name |-> Member(text[k], "name"),
         grade |-> Member(text[k], "grade"),
         studentID |-> Member(text[k], "studentID")]]

(* ------------------------------- files -------------------------------- *)

\* A file: absent (ENOENT), or its content: a complete JSON text, nothing
\* (opened with flag 'w' and not yet written), the mix two overlapping
\* writes leave, or text that was never JSON.
Absent == [kind |-> "absent", text |-> <<>>]
Empty == [kind |-> "empty", text |-> <<>>]
Garbled == [kind |-> "garbled", text |-> <<>>]
Corrupt == [kind |-> "corrupt", text |-> <<>>]
Json(text) == [kind |-> "json", text |-> text]

\* What a write of `text` at offset 0 leaves in a file holding `old`: the
\* text itself on an empty file or over a text that is not longer (size is
\* counted in records), otherwise the text followed by the old tail.
Overlay(old, text) ==
    IF old.kind = "empty" \/ (old.kind = "json" /\ Len(old.text) <= Len(text))
    THEN Json(text)
    ELSE Garbled

(* ------------------------------ hello.js ------------------------------ *)

\* The text hello.js writes to greeting.txt, and a text an earlier run of
\* another version of the script left there.
Greeting == "This is a very new concept to me. I am used to php's synchronous behaviour"
OldGreeting == "Hello"

\* The line the script logs itself, after its two fs calls.
SyncLine == "This runs before the file operations!"

\* greeting.txt: whether it exists, and its text.
NoGreeting == [exists |-> FALSE, text |-> ""]
GreetingFile(text) == [exists |-> TRUE, text |-> text]

\* hello.js before its first statement, greeting.txt not existing: where the
\* script stands, the state of each file operation (none, queued, opened,
\* ok, failed, called back), what the read got, the file, and the console.
HelloStart ==
    [pc |-> "writeFile", w |-> "none", r |-> "none", data |-> "",
     file |-> NoGreeting, log |-> <<>>]

(* ------------------------------- state -------------------------------- *)

VARIABLES
    products,       \* the module-level array `products`
    students,       \* the module-level array `students`
    productsFile,   \* the file at PRODUCTS_FILE
    studentsFile,   \* the file at STUDENTS_FILE
    pcInit,         \* where the startup sequence stands
    loadOutcome,    \* what readData did for each file in this run
    reqs,           \* the handlers suspended in `await writeData(...)`
    response,       \* the HTTP response sent by the step just taken
    crashed,        \* the save a process crash interrupted, until the reload
    accepted,       \* how many requests have reached writeData
    crashes,        \* how many times the process has crashed
    hello           \* the run of hello.js: script, file operations, console

vars == <<products, students, productsFile, studentsFile, pcInit,
          loadOutcome, reqs, response, crashed, accepted, crashes, hello>>

\* No handler is suspended in this slot.
IdleReq ==
    [pc |-> "idle", op |-> "", coll |-> "", status |-> 0, id |-> 0,
     snap |-> <<>>, before |-> <<>>, pre |-> Absent]

\* The step just taken sent no response.
NoResponse ==
    [op |-> "", status |-> 0, message |-> "", id |-> 0, log |-> "", body |-> <<>>]

\* No save was interrupted.
NoCrash == [pre |-> Absent, post |-> <<>>, mid |-> FALSE]

Pending == [products |-> "pending", students |-> "pending"]

\* The files a run can find at startup: none, a text that is not JSON, or
\* the snapshot of the default data.
Init ==
    /\ products = DefaultProducts
    /\ students = DefaultStudents
    /\ productsFile \in {Absent, Corrupt, Json(StringifyProducts(DefaultProducts))}
    /\ studentsFile \in {Absent, Corrupt, Json(StringifyStudents(DefaultStudents))}
    /\ pcInit = "loadProducts"
    /\ loadOutcome = Pending
    /\ reqs = [i \in Slots |-> IdleReq]
    /\ response = NoResponse
    /\ crashed = NoCrash
    /\ accepted = 0
    /\ crashes = 0
    /\ hello = HelloStart

(* ------------------------------ startup ------------------------------- *)

\* writeData returning before anything was written (fs.writeFile not
\* awaited): it reports success and the file is as it was.
writeData_NotAwaited(file, text) == { [threw |-> FALSE, file |-> file] }

\* writeData(filePath, data) run to its end with no handler beside it: it
\* returns with the file holding the text, or throws with the file as it
\* was (mkdir or open failed) or opened and not written.
writeData(file, text) ==
    { [threw |-> FALSE, file |-> Json(text)],
      [threw |-> TRUE, file |-> file],
      [threw |-> TRUE, file |-> Empty] }

\* What readData's catch does with an error that is not ENOENT.
ReadError(file, defaultData) ==
    [threw |-> TRUE, data |-> defaultData, file |-> file, how |-> "unparsed"]

\* readData(filePath, defaultData): the parsed file; for a missing file the
\* default data, written to the file; an error for a file that does not parse.
\* `parsed` is JSON.parse of the file's text and `defaultText` is
\* JSON.stringify of the default data, in the collection's record layout.
readData(file, defaultData, defaultText, parsed) ==
    IF file.kind = "json"
    THEN {[threw |-> FALSE, data |-> parsed, file |-> file,
           how |-> "loaded"]}
    ELSE IF file.kind = "absent"
    THEN {[threw |-> w.threw, data |-> defaultData, file |-> w.file,
           how |-> IF w.threw THEN "unsaved" ELSE "loaded"] :
            w \in writeData(file, defaultText)}
    ELSE {ReadError(file, defaultData)}

\* AfterLoadError with initializeData rethrowing: the .catch of the startup
\* chain exits the process.
AfterLoadError_Abort == "aborted"

\* Where initializeData goes when readData(PRODUCTS_FILE) threw: its catch
\* logs and returns, so the students load is skipped and the server starts.
AfterLoadError == "initialized"

\* products = await readData(PRODUCTS_FILE, products)
LoadProducts ==
    /\ pcInit = "loadProducts"
    /\ \E r \in readData(productsFile, products, StringifyProducts(products),
                         ParseProducts(productsFile.text)) :
        /\ productsFile' = r.file
        /\ products' = IF r.threw THEN products ELSE r.data
        /\ pcInit' = IF r.threw THEN AfterLoadError ELSE "loadStudents"
        /\ loadOutcome' = [products |-> r.how,
                           students |-> IF r.threw THEN "skipped" ELSE "pending"]
    /\ UNCHANGED <<students, studentsFile, reqs, response, crashed, accepted,
                   crashes, hello>>

\* students = await readData(STUDENTS_FILE, students)
LoadStudents ==
    /\ pcInit = "loadStudents"
    /\ \E r \in readData(studentsFile, students, StringifyStudents(students),
                         ParseStudents(studentsFile.text)) :
        /\ studentsFile' = r.file
        /\ students' = IF r.threw THEN students ELSE r.data
        /\ pcInit' = IF r.threw THEN AfterLoadError ELSE "initialized"
        /\ loadOutcome' = [loadOutcome EXCEPT !.students = r.how]
    /\ UNCHANGED <<products, productsFile, reqs, response, crashed, accepted,
                   crashes, hello>>

\* The .then callback: the routes are registered and app.listen is called.
Listen ==
    /\ pcInit = "initialized"
    /\ pcInit' = "listening"
    /\ crashed' = NoCrash
    /\ UNCHANGED <<products, students, productsFile, studentsFile,
                   loadOutcome, reqs, response, accepted, crashes, hello>>

\* Ready with the routes and app.listen outside initializeData().then(...):
\* handlers run whatever the state of the startup.
Ready_AtModuleLoad == TRUE

\* The routes are registered and app.listen is called in the callback of
\* initializeData().then(...): a handler runs only in a listening process.
Ready == pcInit = "listening"

(* ------------------------- collection helpers ------------------------- *)

\* NewId without the + 1: the new record takes the id of the last one.
NewId_Length(coll) == Len(coll)

\* The id a POST gives the new record: array length + 1.
NewId(coll) == Len(coll) + 1

\* FindIndex taking the id for the position in the array (coll[id - 1]).
FindIndex_ByPosition(coll, id) == IF id \in 1..Len(coll) THEN id ELSE 0

\* coll.findIndex(p => p.id === id), counted from 1; 0 when there is none.
FindIndex(coll, id) ==
    IF \E k \in 1..Len(coll) : coll[k].id = id
    THEN CHOOSE k \in 1..Len(coll) :
            coll[k].id = id /\ \A j \in 1..(k - 1) : coll[j].id # id
    ELSE 0

\* Splice without its delete count (coll.splice(index)): everything from
\* `index` on is removed.
Splice_ToEnd(coll, index) == SubSeq(coll, 1, index - 1)

\* coll.splice(index, 1)
Splice(coll, index) ==
    [k \in 1..(Len(coll) - 1) |-> IF k < index THEN coll[k] ELSE coll[k + 1]]

\* ProductInvalid with the test of the name left out.
ProductInvalid_NoName(body) == Falsy(body.price) \/ Falsy(body.description)

\* !name || !price || !description
ProductInvalid(body) ==
    Falsy(body.name) \/ Falsy(body.price) \/ Falsy(body.description)

\* !name || !grade || !studentID
StudentInvalid(body) ==
    Falsy(body.name) \/ Falsy(body.grade) \/ Falsy(body.studentID)

\* StudentIDTaken with the uniqueness check left out.
StudentIDTaken_Unchecked(coll, studentID) == FALSE

\* students.find(s => s.studentID === studentID) is truthy
StudentIDTaken(coll, studentID) ==
    \E k \in 1..Len(coll) : coll[k].studentID = studentID

\* The object POST /api/products builds.
NewProduct(coll, body) ==
    [id |-> NewId(coll), name |-> body.name, price |-> body.price,
     description |-> body.description,
     category |-> OrElse(body.category, Str("Uncategorized"))]

\* The object POST /api/students builds.
NewStudent(coll, body) ==
    [id |-> NewId(coll), name |-> body.name, grade |-> body.grade,
     studentID |-> body.studentID]

\* UpdatedProduct numbering the record anew, as a POST numbers a new one.
UpdatedProduct_FreshId(product, body) ==
    [id |-> product.id + 1, name |-> body.name, price |-> body.price,
     description |-> body.description,
     category |-> OrElse(body.category,
                         OrElse(product.category, Str("Uncategorized")))]

\* The assignments of PUT /api/products/:id to the matched product.
UpdatedProduct(product, body) ==
    [id |-> product.id, name |-> body.name, price |-> body.price,
     description |-> body.description,
     category |-> OrElse(body.category,
                         OrElse(product.category, Str("Uncategorized")))]

(* ------------------------------ requests ------------------------------ *)

InFlight == {"mkdir", "open", "write"}

\* The slot a handler that reaches `await writeData` is suspended in.
FreeSlot == CHOOSE i \in Slots : reqs[i].pc = "idle" /\ \A j \in 1..(i - 1) : reqs[j].pc # "idle"

HasFreeSlot == \E i \in Slots : reqs[i].pc = "idle"

\* A handler answered at once (a 400 or a 404) and touched nothing.
Reply(op, status, message) ==
    /\ response' = [op |-> op, status |-> status, message |-> message,
                    id |-> 0, log |-> "", body |-> <<>>]
    /\ UNCHANGED <<products, students, productsFile, studentsFile, pcInit,
                   loadOutcome, reqs, crashed, accepted, crashes, hello>>

\* A handler changed its array and called writeData: it is suspended in
\* `await fs.mkdir(...)`; `status` is what it sends once writeData returns.
Suspend(op, coll, status, id, before) ==
    /\ HasFreeSlot
    /\ accepted < MaxRequests
    /\ accepted' = accepted + 1
    /\ reqs' = [reqs EXCEPT ![FreeSlot] =
                   [pc |-> "mkdir", op |-> op, coll |-> coll, status |-> status,
                    id |-> id, snap |-> <<>>, before |-> before, pre |-> Absent]]
    /\ response' = NoResponse
    /\ UNCHANGED <<productsFile, studentsFile, pcInit, loadOutcome, crashed,
                   crashes, hello>>

\* app.post('/api/products', ...)
PostProduct(body) ==
    /\ Ready
    /\ IF ProductInvalid(body)
       THEN Reply("POST /api/products", 400,
                  "Name, price, and description are required")
       ELSE /\ Len(products) < MaxLen
            /\ products' = Append(products, NewProduct(products, body))
            /\ Suspend("POST /api/products", "products", 201,
                       NewId(products), products)
            /\ UNCHANGED students

\* app.put('/api/products/:id', ...)
PutProduct(idParam, body) ==
    /\ Ready
    /\ LET index == FindIndex(products, ParseInt(idParam)) IN
       IF index = 0
       THEN Reply("PUT /api/products/:id", 404, "Product not found")
       ELSE IF ProductInvalid(body)
       THEN Reply("PUT /api/products/:id", 400,
                  "Name, price, and description are required")
       ELSE /\ products' = [products EXCEPT
                                ![index] = UpdatedProduct(products[index], body)]
            /\ Suspend("PUT /api/products/:id", "products", 200,
                       products[index].id, products)
            /\ UNCHANGED students

\* app.delete('/api/products/:id', ...)
DeleteProduct(idParam) ==
    /\ Ready
    /\ LET index == FindIndex(products, ParseInt(idParam)) IN
       IF index = 0
       THEN Reply("DELETE /api/products/:id", 404, "Product not found")
       ELSE /\ products' = Splice(products, index)
            /\ Suspend("DELETE /api/products/:id", "products", 204,
                       products[index].id, products)
            /\ UNCHANGED students

\* app.post('/api/students', ...)
PostStudent(body) ==
    /\ Ready
    /\ IF StudentInvalid(body)
       THEN Reply("POST /api/students", 400,
                  "Name, grade, and studentID are required")
       ELSE IF StudentIDTaken(students, body.studentID)
       THEN Reply("POST /api/students", 400, "StudentID must be unique")
       ELSE /\ Len(students) < MaxLen
            /\ students' = Append(students, NewStudent(students, body))
            /\ Suspend("POST /api/students", "students", 201,
                       NewId(students), students)
            /\ UNCHANGED products

\* String.prototype.toLowerCase on the strings the model uses; the others
\* are lower case already.
ToLowerCase(s) ==
    CASE s = "Electronics" -> "electronics"
      [] s = "ELECTRONICS" -> "electronics"
      [] s = "Uncategorized" -> "uncategorized"
      [] s = "A" -> "a"
      [] s = "B" -> "b"
      [] s = "S1" -> "s1"
      [] s = "S2" -> "s2"
      [] s = "S3" -> "s3"
      [] s = "S4" -> "s4"
      [] OTHER -> s

\* x && x.toLowerCase() throws a TypeError: x is truthy and no string.
LowerThrows(x) == ~Falsy(x) /\ x.t # "string"

\* A handler threw before its first await: the router passes the error to
\* the error middleware, which answers 500.
Thrown(op) ==
    /\ response' = [op |-> op, status |-> 500,
                    message |-> "Something went wrong!", id |-> 0,
                    log |-> "", body |-> <<>>]
    /\ UNCHANGED <<products, students, productsFile, studentsFile, pcInit,
                   loadOutcome, reqs, crashed, accepted, crashes, hello>>

\* The ?category= values tried: none, and one in another case than the data.
CategoryQueries == {Undefined, Str("ELECTRONICS")}

\* Send by a handler that assigns what it returns to the array
\* (res.json(products = products.filter(...))).
Send_Assigning(op, id, body) ==
    /\ response' = [op |-> op, status |-> 200, message |-> "", id |-> id,
                    log |-> "", body |-> body]
    /\ products' = body
    /\ UNCHANGED <<students, productsFile, studentsFile, pcInit,
                   loadOutcome, reqs, crashed, accepted, crashes, hello>>

\* res.json(body) of a handler that touches nothing.
Send(op, id, body) ==
    /\ response' = [op |-> op, status |-> 200, message |-> "", id |-> id,
                    log |-> "", body |-> body]
    /\ UNCHANGED <<products, students, productsFile, studentsFile, pcInit,
                   loadOutcome, reqs, crashed, accepted, crashes, hello>>

\* app.get('/api/products', ...)
GetProducts(category) ==
    /\ Ready
    /\ IF Falsy(category)
       THEN Send("GET /api/products", 0, products)
       ELSE IF \E k \in 1..Len(products) : LowerThrows(products[k].category)
       THEN Thrown("GET /api/products?category")
       ELSE Send("GET /api/products?category", 0,
                 SelectSeq(products,
                           LAMBDA p : /\ ~Falsy(p.category)
                                      /\ ToLowerCase(p.category.v) =
                                            ToLowerCase(category.v)))

\* app.get('/api/products/:id', ...)
GetProduct(idParam) ==
    /\ Ready
    /\ LET index == FindIndex(products, ParseInt(idParam)) IN
       IF index = 0
       THEN Reply("GET /api/products/:id", 404, "Product not found")
       ELSE Send("GET /api/products/:id", products[index].id,
                 <<products[index]>>)

\* The ?grade= values tried: none, and two in another case than the data.
GradeQueries == {Undefined, Str("a"), Str("b")}

\* app.get('/api/students', ...)
GetStudents(grade) ==
    /\ Ready
    /\ IF Falsy(grade)
       THEN Send("GET /api/students", 0, students)
       ELSE IF \E k \in 1..Len(students) : LowerThrows(students[k].grade)
       THEN Thrown("GET /api/students?grade")
       ELSE Send("GET /api/students?grade", 0,
                 SelectSeq(students,
                           LAMBDA p : /\ ~Falsy(p.grade)
                                      /\ ToLowerCase(p.grade.v) =
                                            ToLowerCase(grade.v)))

\* The :id values of GET /api/students/:id tried.
StudentIDParams == {"S1", "s1", "S2", "S9"}

\* app.get('/api/students/:id', ...): the lookup is by studentID, with ===.
GetStudent(idParam) ==
    /\ Ready
    /\ IF \E k \in 1..Len(students) : students[k].studentID = Str(idParam)
       THEN LET k == CHOOSE j \in 1..Len(students) :
                        /\ students[j].studentID = Str(idParam)
                        /\ \A i \in 1..(j - 1) :
                              students[i].studentID # Str(idParam)
            IN Send("GET /api/students/:id", students[k].id, <<students[k]>>)
       ELSE Reply("GET /api/students/:id", 404, "Student not found")

(* ------------------------ writeData, step by step ---------------------- *)

FileOf(coll) == IF coll = "products" THEN productsFile ELSE studentsFile

\* JSON.stringify(data, null, 2) of the array `data` refers to, as it is now.
StringifyNow(coll) ==
    IF coll = "products" THEN StringifyProducts(products)
    ELSE StringifyStudents(students)

SetFile(coll, file) ==
    IF coll = "products"
    THEN productsFile' = file /\ UNCHANGED studentsFile
    ELSE studentsFile' = file /\ UNCHANGED productsFile

\* fs.mkdir resolved: the array is stringified as it is at this moment and
\* fs.writeFile is called.
MkdirDone(i) ==
    /\ reqs[i].pc = "mkdir"
    /\ reqs' = [reqs EXCEPT ![i].pc = "open",
                            ![i].snap = StringifyNow(reqs[i].coll)]
    /\ response' = NoResponse
    /\ UNCHANGED <<products, students, productsFile, studentsFile, pcInit,
                   loadOutcome, crashed, accepted, crashes, hello>>

\* fs.writeFile opened the file with flag 'w': it is created or truncated.
OpenDone(i) ==
    /\ reqs[i].pc = "open"
    /\ reqs' = [reqs EXCEPT ![i].pc = "write", ![i].pre = FileOf(reqs[i].coll)]
    /\ SetFile(reqs[i].coll, Empty)
    /\ response' = NoResponse
    /\ UNCHANGED <<products, students, pcInit, loadOutcome, crashed, accepted,
                   crashes, hello>>

\* The response of a handler whose writeData returned.
Succeeded(r) ==
    [op |-> r.op, status |-> r.status, message |-> "", id |-> r.id,
     log |-> "Saved data", body |-> <<>>]

\* fs.writeFile wrote the text and resolved; writeData logs and returns true
\* and the handler sends its response.
WriteDone(i) ==
    /\ reqs[i].pc = "write"
    /\ SetFile(reqs[i].coll, Overlay(FileOf(reqs[i].coll), reqs[i].snap))
    /\ reqs' = [reqs EXCEPT ![i] = IdleReq]
    /\ response' = Succeeded(reqs[i])
    /\ UNCHANGED <<products, students, pcInit, loadOutcome, crashed, accepted,
                   crashes, hello>>

\* Rejected with writeData's catch swallowing the error: the handler goes on
\* to its success response.
Rejected_Swallowed(r) ==
    { [op |-> r.op, status |-> r.status, message |-> "", id |-> r.id,
       log |-> "Error saving", body |-> <<>>] }

\* What the caller gets when writeData threw: its catch logs and rethrows,
\* the async handler rejects, and the response is the error middleware's 500
\* where the router forwards a rejected handler, none where it does not.
Rejected(r) ==
    { [op |-> r.op, status |-> 500, message |-> "Something went wrong!",
       id |-> 0, log |-> "Error saving", body |-> <<>>],
      [op |-> r.op, status |-> 0, message |-> "", id |-> 0,
       log |-> "Error saving", body |-> <<>>] }

\* fs.mkdir or fs.writeFile rejected (EACCES, ENOSPC, ...): the file stays as
\* the failed call left it.
WriteFail(i) ==
    /\ reqs[i].pc \in InFlight
    /\ reqs' = [reqs EXCEPT ![i] = IdleReq]
    /\ response' \in Rejected(reqs[i])
    /\ UNCHANGED <<products, students, productsFile, studentsFile, pcInit,
                   loadOutcome, crashed, accepted, crashes, hello>>

(* ------------------------------- crash -------------------------------- *)

ProductSaves == {i \in Slots : reqs[i].pc \in InFlight /\ reqs[i].coll = "products"}

\* The save of the products file a crash interrupts between its open and
\* its write, when it is the only one in flight and the file held a snapshot.
Interrupted ==
    IF \E i \in Slots :
          /\ ProductSaves = {i}
          /\ reqs[i].pc = "write"
          /\ reqs[i].pre.kind = "json"
    THEN LET i == CHOOSE j \in Slots : ProductSaves = {j} IN
         [pre |-> reqs[i].pre, post |-> reqs[i].snap, mid |-> TRUE]
    ELSE NoCrash

\* The process dies (killed, power loss) while a save has its file open, and
\* is started again: memory is the modules' initial state, the files stay.
Crash ==
    /\ pcInit = "listening"
    /\ crashes < MaxCrashes
    /\ \E i \in Slots : reqs[i].pc = "write"
    /\ crashes' = crashes + 1
    /\ products' = DefaultProducts
    /\ students' = DefaultStudents
    /\ pcInit' = "loadProducts"
    /\ loadOutcome' = Pending
    /\ reqs' = [i \in Slots |-> IdleReq]
    /\ response' = NoResponse
    /\ crashed' = Interrupted
    /\ UNCHANGED <<productsFile, studentsFile, accepted, hello>>

(* ------------------------- hello.js, step by step ---------------------- *)

\* A step of hello.js: the API's state is not involved.
HelloStep(h) ==
    /\ hello' = h
    /\ UNCHANGED <<products, students, productsFile, studentsFile, pcInit,
                   loadOutcome, reqs, response, crashed, accepted, crashes>>

\* fs.writeFile('greeting.txt', text, callback): the operation is handed to
\* the thread pool and the call returns.
CallWriteFile ==
    /\ hello.pc = "writeFile"
    /\ HelloStep([hello EXCEPT !.pc = "readFile", !.w = "queued"])

\* fs.readFile('greeting.txt', 'utf8', callback)
CallReadFile ==
    /\ hello.pc = "readFile"
    /\ HelloStep([hello EXCEPT !.pc = "log", !.r = "queued"])

\* console.log('This runs before the file operations!'): the last statement
\* of the script.
LogSync ==
    /\ hello.pc = "log"
    /\ HelloStep([hello EXCEPT !.pc = "done",
                               !.log = Append(@, <<SyncLine>>)])

\* The write opens greeting.txt with flag 'w': it is created or truncated.
WriteOpens ==
    /\ hello.w = "queued"
    /\ HelloStep([hello EXCEPT !.w = "opened", !.file = GreetingFile("")])

\* The write puts the text in the file.
WriteWrites ==
    /\ hello.w = "opened"
    /\ HelloStep([hello EXCEPT !.w = "ok", !.file = GreetingFile(Greeting)])

\* The open or the write of fs.writeFile fails (EACCES, ENOSPC).
WriteFails ==
    /\ hello.w \in {"queued", "opened"}
    /\ HelloStep([hello EXCEPT !.w = "failed"])

\* The read opens greeting.txt: ENOENT when it does not exist.
ReadOpens ==
    /\ hello.r = "queued"
    /\ HelloStep([hello EXCEPT
                     !.r = IF hello.file.exists THEN "opened" ELSE "failed"])

\* The read gets the text the file holds at that moment.
ReadReads ==
    /\ hello.r = "opened"
    /\ HelloStep([hello EXCEPT !.r = "ok", !.data = hello.file.text])

\* ScriptDone with callbacks called as soon as their operation has ended,
\* the script still running.
ScriptDone_Reentrant == TRUE

\* The script has run to its end: the event loop calls a callback only with
\* an empty call stack.
ScriptDone == hello.pc = "done"

\* The callback of fs.writeFile
WriteCallback ==
    /\ ScriptDone
    /\ hello.w \in {"ok", "failed"}
    /\ HelloStep([hello EXCEPT
                     !.w = "called",
                     !.log = Append(@, IF hello.w = "ok"
                                       THEN <<"File written successfully!">>
                                       ELSE <<"Error writing to file:">>)])

\* The callback of fs.readFile
ReadCallback ==
    /\ ScriptDone
    /\ hello.r \in {"ok", "failed"}
    /\ HelloStep([hello EXCEPT
                     !.r = "called",
                     !.log = Append(@, IF hello.r = "ok"
                                       THEN <<"File content:", hello.data>>
                                       ELSE <<"Error reading file:">>)])

(* --------------------------- specifications --------------------------- *)

Startup == LoadProducts \/ LoadStudents \/ Listen

Save == \E i \in Slots : MkdirDone(i) \/ OpenDone(i) \/ WriteDone(i) \/ WriteFail(i)

\* The bodies that pass validation and the ids that are found: the requests
\* that reach writeData.
ValidBodies == {body \in ProductBodies : ~ProductInvalid(body)}

FoundIdParams ==
    {idParam \in IdParams : FindIndex(products, ParseInt(idParam)) # 0}

StudentRequest == \E body \in StudentBodies : PostStudent(body)

\* The product routes under overlapping requests and crashes.
Next ==
    \/ Startup
    \/ \E body \in ValidBodies : PostProduct(body)
    \/ \E idParam \in FoundIdParams, body \in ValidBodies : PutProduct(idParam, body)
    \/ \E idParam \in FoundIdParams : DeleteProduct(idParam)
    \/ Save
    \/ Crash

\* Only the products file varies at startup.
InitProducts ==
    Init /\ studentsFile = Json(StringifyStudents(DefaultStudents))

Spec == InitProducts /\ [][Next]_vars

\* The student route.
NextStudents == Startup \/ StudentRequest \/ Save \/ Crash

\* Only the students file varies at startup.
InitStudents ==
    Init /\ productsFile = Json(StringifyProducts(DefaultProducts))

SpecStudents == InitStudents /\ [][NextStudents]_vars

\* Creates only.
NextCreates ==
    \/ Startup
    \/ \E body \in ValidBodies : PostProduct(body)
    \/ StudentRequest
    \/ Save

SpecCreates == Init /\ [][NextCreates]_vars

\* The product reads.
Read ==
    \/ \E category \in CategoryQueries : GetProducts(category)
    \/ \E idParam \in IdParams : GetProduct(idParam)

\* The product routes, reads included, under overlapping requests.
NextReads ==
    \/ Startup
    \/ \E body \in ValidBodies : PostProduct(body)
    \/ \E idParam \in FoundIdParams, body \in ValidBodies : PutProduct(idParam, body)
    \/ \E idParam \in FoundIdParams : DeleteProduct(idParam)
    \/ Read
    \/ Save

SpecReads == InitProducts /\ [][NextReads]_vars

\* The step stays within the changes SpecRequests allows: it is a refusal
\* or a read, or fewer than MaxChanges requests have changed a collection.
WithinChanges == accepted < MaxChanges \/ reqs' = reqs

\* Every route, with bodies that fail validation and ids that are not found
\* among the inputs.
NextRequests ==
    \/ Startup
    \/ \E category \in CategoryQueries : GetProducts(category)
    \/ \E body \in ProductBodies : PostProduct(body) /\ WithinChanges
    \/ \E idParam \in IdParams, body \in ProductBodies :
          PutProduct(idParam, body) /\ WithinChanges
    \/ \E idParam \in IdParams : DeleteProduct(idParam) /\ WithinChanges
    \/ \E idParam \in IdParams : GetProduct(idParam)
    \/ \E body \in StudentBodies : PostStudent(body) /\ WithinChanges
    \/ Save

\* Both files hold the snapshot of the default data at startup.
InitLoaded ==
    InitProducts /\ productsFile = Json(StringifyProducts(DefaultProducts))

SpecRequests == InitLoaded /\ [][NextRequests]_vars

\* The products file holds the snapshot of an empty collection, as a run
\* that deleted every product leaves it.
InitEmpty ==
    /\ products = DefaultProducts
    /\ students = DefaultStudents
    /\ productsFile = Json(StringifyProducts(<<>>))
    /\ studentsFile = Json(StringifyStudents(DefaultStudents))
    /\ pcInit = "loadProducts"
    /\ loadOutcome = Pending
    /\ reqs = [i \in Slots |-> IdleReq]
    /\ response = NoResponse
    /\ crashed = NoCrash
    /\ accepted = 0
    /\ crashes = 0
    /\ hello = HelloStart

\* The product routes on a store that starts empty.
SpecEmpty == InitEmpty /\ [][Next]_vars

\* Neither snapshot file exists at startup.
InitAbsent == Init /\ productsFile = Absent /\ studentsFile = Absent

\* A first start, followed by creates.
SpecFirstStart == InitAbsent /\ [][NextCreates]_vars

\* Bodies of POST /api/students for the lists: those of StudentBodies and one
\* whose grade is a number.
ListedBodies ==
    StudentBodies \cup
    { [name |-> Str("Eve"), grade |-> Num("5"), studentID |-> Str("S4")] }

\* The student routes: creates and reads.
NextLists ==
    \/ Startup
    \/ \E body \in ListedBodies : PostStudent(body)
    \/ \E grade \in GradeQueries : GetStudents(grade)
    \/ \E idParam \in StudentIDParams : GetStudent(idParam)
    \/ Save

SpecLists == InitLoaded /\ [][NextLists]_vars

\* Bodies of POST and PUT /api/products for the snapshots: the valid ones
\* and one whose price is a literal too large for a double.
SavedBodies ==
    ValidBodies \cup
    { [name |-> Str("Big"), price |-> Infinity, description |-> Str("x"),
       category |-> Undefined] }

\* The product changes and their saves.
NextSaves ==
    \/ Startup
    \/ \E body \in SavedBodies : PostProduct(body)
    \/ \E idParam \in FoundIdParams, body \in SavedBodies :
          PutProduct(idParam, body)
    \/ \E idParam \in FoundIdParams : DeleteProduct(idParam)
    \/ Save

SpecSaves == InitLoaded /\ [][NextSaves]_vars

\* The product changes with saves that all succeed: no write fails and the
\* process does not crash.
NextOverlaps ==
    \/ Startup
    \/ \E body \in ValidBodies : PostProduct(body)
    \/ \E idParam \in FoundIdParams, body \in ValidBodies : PutProduct(idParam, body)
    \/ \E idParam \in FoundIdParams : DeleteProduct(idParam)
    \/ \E i \in Slots : MkdirDone(i) \/ OpenDone(i) \/ WriteDone(i)

SpecOverlaps == InitLoaded /\ [][NextOverlaps]_vars

\* hello.js is started; greeting.txt does not exist or holds the text of an
\* earlier run.
InitHello ==
    /\ products = DefaultProducts
    /\ students = DefaultStudents
    /\ productsFile = Absent
    /\ studentsFile = Absent
    /\ pcInit = "loadProducts"
    /\ loadOutcome = Pending
    /\ reqs = [i \in Slots |-> IdleReq]
    /\ response = NoResponse
    /\ crashed = NoCrash
    /\ accepted = 0
    /\ crashes = 0
    /\ hello \in {HelloStart,
                  [HelloStart EXCEPT !.file = GreetingFile(OldGreeting)],
                  [HelloStart EXCEPT !.file = GreetingFile(Greeting)]}

\* A run of hello.js.
NextHello ==
    \/ CallWriteFile \/ CallReadFile \/ LogSync
    \/ WriteOpens \/ WriteWrites \/ WriteFails
    \/ ReadOpens \/ ReadReads
    \/ WriteCallback \/ ReadCallback

SpecHello == InitHello /\ [][NextHello]_vars

\* The students collection an earlier run left in its snapshot file: the
\* default data and one student created through POST /api/students.
EarlierStudents ==
    DefaultStudents \o
       << [id |-> 2, name |-> Str("Bob"), grade |-> Str("B"),
           studentID |-> Str("S2")] >>

\* A restart: the students file holds what the earlier run saved, the
\* products file is missing, unreadable as JSON, or intact.
InitRestart ==
    /\ products = DefaultProducts
    /\ students = DefaultStudents
    /\ productsFile \in {Absent, Corrupt, Json(StringifyProducts(DefaultProducts))}
    /\ studentsFile = Json(StringifyStudents(EarlierStudents))
    /\ pcInit = "loadProducts"
    /\ loadOutcome = Pending
    /\ reqs = [i \in Slots |-> IdleReq]
    /\ response = NoResponse
    /\ crashed = NoCrash
    /\ accepted = 0
    /\ crashes = 0
    /\ hello = HelloStart

\* A restart, followed by creates.
SpecRestart == InitRestart /\ [][NextCreates]_vars

(* ------------------------------- claims ------------------------------- *)

IdsDistinct(coll) ==
    \A j, k \in 1..Len(coll) : j # k => coll[j].id # coll[k].id

RECURSIVE MaxId(_)
\* The largest id in a collection, 0 for an empty one.
MaxId(coll) ==
    IF coll = <<>> THEN 0
    ELSE LET rest == MaxId(Tail(coll)) IN
         IF Head(coll).id > rest THEN Head(coll).id ELSE rest

SuccessCodes == {200, 201, 204}

Saving(coll) == {i \in Slots : reqs[i].pc \in InFlight /\ reqs[i].coll = coll}

\* C1: in every reachable state of the product store, started from the seed
\* with ids 1..n, the ids of the records of `products` are pairwise distinct.
C1_ProductIdsDistinct == IdsDistinct(products)

\* C2: a create gives the new record the id (largest id in the collection
\* before the create) + 1; after delete(1) on ids 1, 2 the next create gets 3.
C2_CreateAssignsMaxIdPlusOne ==
    \A i \in Slots :
        reqs[i].op = "POST /api/products" =>
            reqs[i].id = MaxId(reqs[i].before) + 1

\* C3: when the snapshot write of a create, update or delete fails, the
\* in-memory collection after the failed call equals the collection as it
\* was immediately before the call.
C3_RollbackOnFailedWrite ==
    [][\A i \in Slots :
          WriteFail(i) =>
             /\ reqs[i].coll = "products" => products' = reqs[i].before
             /\ reqs[i].coll = "students" => students' = reqs[i].before]_vars

\* C4: whenever a create, update or delete answers with success, the snapshot
\* file holds exactly the in-memory collection of that instant.
C4_SnapshotEqualsMemoryOnSuccess ==
    response.status \in SuccessCodes =>
       /\ response.op # "POST /api/students" =>
             productsFile = Json(StringifyProducts(products))
       /\ response.op = "POST /api/students" =>
             studentsFile = Json(StringifyStudents(students))

\* C5: at most one mutating operation per collection is between its change
\* of the in-memory collection and the end of its snapshot write.
C5_AtMostOneMutationInFlight ==
    /\ Cardinality(Saving("products")) <= 1
    /\ Cardinality(Saving("students")) <= 1

\* C6: when writeData fails for a create, update or delete, the caller gets
\* no success response and the failure is logged.
C6_NoSuccessAfterFailedWrite ==
    [][\A i \in Slots :
          WriteFail(i) =>
             /\ response'.status \notin SuccessCodes
             /\ response'.log = "Error saving"]_vars

\* C6 happens: a POST whose write failed was answered with the 500.
C6_Witness ==
    /\ response.op = "POST /api/products"
    /\ response.status = 500
    /\ response.log = "Error saving"

\* C7: the load that follows a crash in the middle of a save yields exactly
\* the snapshot from before the save or the one the save was writing.
C7_LoadAfterInterruptedSave ==
    (crashed.mid /\ loadOutcome.products # "pending") =>
       /\ loadOutcome.products = "loaded"
       /\ products \in {ParseProducts(crashed.pre.text),
                        ParseProducts(crashed.post)}

\* C8: the studentID values of `students` are pairwise distinct in every
\* reachable state, overlapping creates with the same studentID included.
C8_StudentIDsDistinct ==
    \A j, k \in 1..Len(students) :
        j # k => students[j].studentID # students[k].studentID

\* C8 happens: a create was refused as a duplicate of a studentID whose own
\* create is still suspended in writeData.
C8_Witness ==
    /\ response.message = "StudentID must be unique"
    /\ \E i \in Saving("students") :
          /\ reqs[i].id = students[Len(students)].id
          /\ students[Len(students)].studentID = Str("S2")

\* C9: after creates only, from seeds with ids 1..n, no two records of a
\* collection share an id.
C9_IdsDistinctAfterCreates == IdsDistinct(products) /\ IdsDistinct(students)

\* C9 happens: two creates have succeeded, the second one just now.
C9_Witness ==
    /\ accepted = 2
    /\ Len(products) + Len(students) = Len(DefaultProducts) + Len(DefaultStudents) + 2
    /\ response.status = 201
    /\ \A i \in Slots : reqs[i].pc = "idle"

C11_UnparsedSnapshotNeverWritten ==
    [][/\ (loadOutcome.products = "unparsed" /\ loadOutcome'.products = "unparsed")
             => productsFile' = productsFile
       /\ (loadOutcome.students = "unparsed" /\ loadOutcome'.students = "unparsed")
             => studentsFile' = studentsFile]_vars

\* C12: no handler runs before the startup load has settled: a request is
\* answered or suspended only in a listening process whose two loads are no
\* longer pending, the process starts listening only from the settled
\* startup, and a listening process never goes back to loading.
C12_NoRequestBeforeLoaded ==
    /\ []((response # NoResponse \/ accepted > 0 \/ \E i \in Slots : reqs[i].pc # "idle")
             => /\ pcInit = "listening"
                /\ loadOutcome.products # "pending"
                /\ loadOutcome.students # "pending")
    /\ [][/\ (pcInit # "listening" /\ pcInit' = "listening")
                => /\ pcInit = "initialized"
                   /\ loadOutcome.products # "pending"
                   /\ loadOutcome.students # "pending"
          /\ pcInit = "listening" => pcInit' = "listening"]_vars

\* C12 happens: both files were loaded, then a student create was answered.
C12_Witness ==
    /\ pcInit = "listening"
    /\ loadOutcome.products = "loaded"
    /\ loadOutcome.students = "loaded"
    /\ response.op = "POST /api/students"
    /\ response.status = 201

\* C13: every create, update or delete request gets a response, the one whose
\* snapshot write failed included: when the handler of such a request has
\* ended on a failed writeData, a response has been sent to its caller.
C13_FailedWriteIsAnswered ==
    response.log = "Error saving" => response.status # 0

\* C14: a list that runs while one mutation of the products is in flight
\* returns the collection as it was before that mutation (the state after it
\* exists only once its snapshot write has completed), never the in-memory
\* change whose write is still under way.
C14_ReadSeesCommittedState ==
    \A i \in Slots :
        (response.op = "GET /api/products" /\ Saving("products") = {i})
           => response.body = reqs[i].before

\* C15: a create that follows a successful delete, the collection not being
\* empty, does not give its record the id of the record just deleted.
C15_DeletedIdNotReused ==
    [][\A body \in ProductBodies :
          (/\ response.op = "DELETE /api/products/:id"
           /\ response.status = 204
           /\ products # <<>>
           /\ PostProduct(body)
           /\ Len(products') = Len(products) + 1)
             => products'[Len(products')].id # response.id]_vars

\* The request was refused as not found and nothing changed in memory, in
\* the files or among the suspended saves.
NotFoundNoChange ==
    /\ response'.status = 404
    /\ response'.message = "Product not found"
    /\ UNCHANGED <<products, students, productsFile, studentsFile, reqs>>

\* C16: an update, a delete or a get whose id no record of the collection
\* carries fails with 404 and leaves the collection and the snapshot file as
\* they were: a step that is not such a refusal is no update, delete or get
\* of an id that is absent.
C16_AbsentIdIsNotFound ==
    [][\/ NotFoundNoChange
       \/ \A idParam \in IdParams :
             (~\E k \in 1..Len(products) : products[k].id = ParseInt(idParam)) =>
                /\ \A body \in ProductBodies : ~PutProduct(idParam, body)
                /\ ~DeleteProduct(idParam)
                /\ ~GetProduct(idParam)]_vars

\* C16 happens: after a delete left one record, an update was refused as
\* not found.
C16_Witness ==
    /\ response.op = "PUT /api/products/:id"
    /\ response.status = 404
    /\ Len(products) = 1

\* C17: a student create whose studentID an existing record carries fails
\* with 'StudentID must be unique' and leaves the collection and the snapshot
\* file as they were, so that creates with one studentID leave one record
\* with it.
C17_DuplicateStudentIDRefused ==
    /\ [][\A body \in StudentBodies :
             (/\ ~StudentInvalid(body)
              /\ \E k \in 1..Len(students) :
                    students[k].studentID = body.studentID
              /\ PostStudent(body))
                => /\ response'.status = 400
                   /\ response'.message = "StudentID must be unique"
                   /\ UNCHANGED <<students, studentsFile, products,
                                  productsFile, reqs>>]_vars
    /\ [](\A body \in StudentBodies :
             Cardinality({k \in 1..Len(students) :
                             students[k].studentID = body.studentID}) <= 1)

\* C17 happens: the create of a studentID succeeded and its save ended, then
\* a second create with that studentID was refused.
C17_Witness ==
    /\ response.op = "POST /api/students"
    /\ response.message = "StudentID must be unique"
    /\ \A i \in Slots : reqs[i].pc = "idle"
    /\ \E k \in 1..Len(students) : students[k].studentID = Str("S2")
    /\ studentsFile = Json(StringifyStudents(students))

\* A field of a request body is absent or is the empty string.
Missing(x) == x = Undefined \/ x = Str("")

LacksProductField(body) ==
    Missing(body.name) \/ Missing(body.price) \/ Missing(body.description)

LacksStudentField(body) ==
    Missing(body.name) \/ Missing(body.grade) \/ Missing(body.studentID)

\* The request was refused with the validation message `message` and nothing
\* changed in memory, in the files or among the suspended saves.
InvalidNoChange(message) ==
    /\ response'.status = 400
    /\ response'.message = message
    /\ UNCHANGED <<products, students, productsFile, studentsFile, reqs>>

\* C18 as stated: every create and every update whose body lacks a required
\* field fails with the validation error, the collection unchanged and no
\* snapshot write started.
C18_MissingFieldIsValidationError ==
    [][/\ \A body \in ProductBodies :
             LacksProductField(body) =>
                /\ PostProduct(body) =>
                      InvalidNoChange("Name, price, and description are required")
                /\ \A idParam \in IdParams :
                      PutProduct(idParam, body) =>
                         InvalidNoChange("Name, price, and description are required")
       /\ \A body \in StudentBodies :
             (LacksStudentField(body) /\ PostStudent(body)) =>
                InvalidNoChange("Name, grade, and studentID are required")]_vars

\* C18 amended: a create whose body lacks a required field, and an update
\* of an existing record whose body lacks one, fail with the validation
\* error; an update whose id no record carries fails as not found whatever
\* its body; in each case the collection is unchanged and no snapshot write
\* is started.
C18_MissingFieldIsRefused ==
    [][/\ \A body \in ProductBodies :
             LacksProductField(body) =>
                /\ PostProduct(body) =>
                      InvalidNoChange("Name, price, and description are required")
                /\ \A idParam \in IdParams :
                      PutProduct(idParam, body) =>
                         IF \E k \in 1..Len(products) :
                               products[k].id = ParseInt(idParam)
                         THEN InvalidNoChange("Name, price, and description are required")
                         ELSE NotFoundNoChange
       /\ \A body \in StudentBodies :
             (LacksStudentField(body) /\ PostStudent(body)) =>
                InvalidNoChange("Name, grade, and studentID are required")]_vars

\* C18 happens: an update of an existing record was refused for a missing
\* field while the save of an earlier change was in flight.
C18_Witness ==
    /\ response.op = "PUT /api/products/:id"
    /\ response.status = 400
    /\ \E i \in Slots : reqs[i].pc \in InFlight

\* C19: an update that passes the lookup and the validation changes one
\* record only, the first one with the id of the request: its id stays, its
\* name, price and description become those of the body, every other record
\* stays as it was, and so do the number and the order of the records.
C19_UpdateChangesOneRecord ==
    [][\A idParam \in IdParams, body \in ValidBodies :
          (accepted' # accepted /\ PutProduct(idParam, body)) =>
             /\ Len(products') = Len(products)
             /\ \E k \in 1..Len(products) :
                   /\ products[k].id = ParseInt(idParam)
                   /\ products'[k].id = products[k].id
                   /\ products'[k].name = body.name
                   /\ products'[k].price = body.price
                   /\ products'[k].description = body.description
                   /\ \A j \in 1..Len(products) :
                         j # k => products'[j] = products[j]]_vars

\* C19 happens: an update was answered 200 and the record with its id has
\* the name of the body.
C19_Witness ==
    /\ response.op = "PUT /api/products/:id"
    /\ response.status = 200
    /\ \E k \in 1..Len(products) :
          /\ products[k].id = response.id
          /\ products[k].name = Str("Tablet")

C21_CreateOnEmptyStore ==
    /\ \A i \in Slots :
          (reqs[i].op = "POST /api/products" /\ reqs[i].before = <<>>)
             => reqs[i].id = 1
    /\ (/\ response.op = "POST /api/products"
        /\ response.status = 201
        /\ response.id = 1)
          => /\ productsFile.kind = "json"
             /\ Len(productsFile.text) = 1
             /\ ParseProducts(productsFile.text)[1].id = 1

\* C22: a load whose file does not exist writes the default data to the file
\* and returns the default data: after such a load, and until a request
\* changes a collection, the collection is the default data and the file
\* holds its snapshot, which parses back to it.
C22_MissingFileIsSeeded ==
    accepted = 0 =>
       /\ loadOutcome.products = "loaded" =>
             /\ products = DefaultProducts
             /\ productsFile = Json(StringifyProducts(products))
             /\ ParseProducts(productsFile.text) = products
       /\ loadOutcome.students = "loaded" =>
             /\ students = DefaultStudents
             /\ studentsFile = Json(StringifyStudents(students))
             /\ ParseStudents(studentsFile.text) = students

\* C22 happens: the server listens after a start without snapshot files in
\* which both loads wrote their file.
C22_Witness ==
    /\ pcInit = "listening"
    /\ accepted = 0
    /\ loadOutcome = [products |-> "loaded", students |-> "loaded"]
    /\ productsFile.kind = "json"
    /\ studentsFile.kind = "json"

\* C23: a list never fails: whatever the records the creates have left in
\* the collection and whatever the filter, GET /api/students answers 200
\* with a sequence of records.
C23_ListNeverFails ==
    response.op \in {"GET /api/students", "GET /api/students?grade"}
       => response.status = 200

\* C24: a list with a filter returns exactly the records, in collection
\* order, whose grade is a string equal to the filter value but for letter
\* case; a list without a filter returns every record in collection order.
C24_ListReturnsTheMatches ==
    [][\A grade \in GradeQueries :
          GetStudents(grade) =>
             /\ response'.status = 200
             /\ response'.body =
                   IF grade = Undefined THEN students
                   ELSE SelectSeq(students,
                                  LAMBDA p : /\ p.grade.t = "string"
                                             /\ ToLowerCase(p.grade.v) =
                                                   ToLowerCase(grade.v))]_vars

\* Some record carries the studentID `key`, letter case ignored.
HasKeyIgnoringCase(key) ==
    \E k \in 1..Len(students) :
        ToLowerCase(students[k].studentID.v) = ToLowerCase(key)

\* C25: the studentID is compared without regard to letter case: a create
\* whose studentID differs from an existing one only in case is refused as a
\* duplicate, and GET /api/students/:id finds the record whatever the case
\* of the id in the request.
C25_NaturalKeyIgnoresCase ==
    [][/\ \A body \in ListedBodies :
             (/\ ~StudentInvalid(body)
              /\ HasKeyIgnoringCase(body.studentID.v)
              /\ PostStudent(body))
                => /\ response'.status = 400
                   /\ response'.message = "StudentID must be unique"
       /\ \A idParam \in StudentIDParams :
             (HasKeyIgnoringCase(idParam) /\ GetStudent(idParam))
                => response'.status = 200]_vars

\* C26: a list and a get leave the collections, the files and the suspended
\* saves as they were, and a list that follows a list of the same kind at
\* once returns the same records.
C26_ReadsChangeNothing ==
    [][/\ \A category \in CategoryQueries :
             GetProducts(category) =>
                /\ UNCHANGED <<products, students, productsFile,
                               studentsFile, reqs>>
                /\ response'.op = response.op =>
                      response'.body = response.body
       /\ \A idParam \in IdParams :
             GetProduct(idParam) =>
                UNCHANGED <<products, students, productsFile, studentsFile,
                            reqs>>]_vars

\* C26 happens: a filtered list returned some of the products, and the
\* array still holds them all.
C26_Witness ==
    /\ response.op = "GET /api/products?category"
    /\ response.status = 200
    /\ Len(response.body) = 2
    /\ Len(products) = 3

\* C27: a save followed by a load of the same file yields the collection
\* that was saved, field for field and in the same order: the text writeData
\* takes of the array parses back to that array.
C27_SaveThenLoadRoundTrip ==
    [][\A i \in Slots :
          MkdirDone(i) =>
             /\ reqs[i].coll = "products" =>
                   ParseProducts(reqs'[i].snap) = products
             /\ reqs[i].coll = "students" =>
                   ParseStudents(reqs'[i].snap) = students]_vars

\* C28: once every mutation that was started has finished its snapshot write
\* and none is in flight, the products file holds the snapshot of the
\* in-memory collection, however the requests overlapped.
C28_QuiescentSnapshotEqualsMemory ==
    (/\ pcInit = "listening"
     /\ accepted > 0
     /\ \A i \in Slots : reqs[i].pc = "idle")
       => productsFile = Json(StringifyProducts(products))

\* C29: a product create is refused with the validation error exactly when
\* a required field is absent or empty: a body with a name, a description
\* and a numeric price, the price 0 included, is not refused.
C29_RefusedIffFieldMissing ==
    [][\A body \in ProductBodies :
          PostProduct(body) =>
             (response'.status = 400 <=> LacksProductField(body))]_vars

\* The console lines the two callbacks of hello.js write.
CallbackLines ==
    { <<"File written successfully!">>, <<"Error writing to file:">>,
      <<"Error reading file:">> } \cup
    { <<"File content:", text>> : text \in {"", Greeting, OldGreeting} }

\* C30: in hello.js the line 'This runs before the file operations!' is
\* logged before the callback of writeFile and the callback of readFile run,
\* however the two file operations are scheduled.
C30_SyncLogBeforeCallbacks ==
    \A k \in 1..Len(hello.log) :
        hello.log[k] \in CallbackLines =>
           \E j \in 1..(k - 1) : hello.log[j] = <<SyncLine>>

\* C30 happens: both callbacks have run, the one of readFile first.
C30_Witness ==
    /\ Len(hello.log) = 3
    /\ hello.log[1] = <<SyncLine>>
    /\ hello.log[2] = <<"File content:", Greeting>>
    /\ hello.log[3] = <<"File written successfully!">>

\* The record the routes GET, PUT and DELETE /api/products/:id act on when
\* they are called with the id of the record at position k: all three look
\* it up with findIndex on parseInt(req.params.id).
Addressed(k) == FindIndex(products, ParseInt(NumToStr(products[k].id)))

\* C31: every record of the product collection is addressable by its own id:
\* for the record at any position, the lookup that get, update and delete do
\* with that record's id finds that record and not another one.
C31_AddressableByOwnId ==
    \A k \in 1..Len(products) : Addressed(k) = k

\* C32: the startup load of the students collection does not depend on the
\* products load: when initializeData has returned and the students snapshot
\* file exists and parses, `students` equals the content of that file, also
\* when loading the products snapshot failed.
C32_StudentsLoadIndependent ==
    (pcInit = "initialized" /\ studentsFile.kind = "json") =>
       students = ParseStudents(studentsFile.text)

\* C33: in hello.js, whenever the callback of readFile reports success, the
\* data it logs is the complete text given to writeFile in the same run,
\* never an empty, partial or older greeting.txt, in every order of the
\* steps of the two file operations.
C33_ReadSeesWrittenText ==
    \A k \in 1..Len(hello.log) :
        hello.log[k][1] = "File content:" =>
           hello.log[k] = <<"File content:", Greeting>>

====
